---------------------------- MODULE Spec2Model ----------------------------
(***************************************************************************)
(* Model of the financial extraction service of the email summarizer      *)
(* backend: PDFService.extractInvoiceData                                  *)
(* (backend/src/services/pdf.service.ts, lines 86-358).                    *)
(*                                                                         *)
(* Strings are sequences of one-character strings, so that                 *)
(* String.prototype.includes is real substring search and toLowerCase /    *)
(* toUpperCase / trim are computed character by character.  A JavaScript   *)
(* value is a record [t, v, s]: t is its kind, v its integer value when    *)
(* it is a finite number, s its characters when it is a string.  Amounts   *)
(* are whole numbers; Infinity, -Infinity and NaN are kept as kinds of     *)
(* their own and follow IEEE-754 arithmetic.                               *)
(***************************************************************************)
EXTENDS Integers, Sequences, FiniteSets, TLC

---------------------------------------------------------------------------
(* Characters and strings                                                  *)

UpperAlphabet ==
    <<"A","B","C","D","E","F","G","H","I","J","K","L","M",
      "N","O","P","Q","R","S","T","U","V","W","X","Y","Z">>

LowerAlphabet ==
    <<"a","b","c","d","e","f","g","h","i","j","k","l","m",
      "n","o","p","q","r","s","t","u","v","w","x","y","z">>

Digits ==
    <<"0","1","2","3","4","5","6","7","8","9">>

WhiteSpace ==
    {" ", "\t", "\n"}

IndexIn(alphabet, c) ==
    CHOOSE i \in 1..Len(alphabet) : alphabet[i] = c

IsIn(alphabet, c) ==
    \E i \in 1..Len(alphabet) : alphabet[i] = c

toLowerCaseChar(c) ==
    IF IsIn(UpperAlphabet, c) THEN LowerAlphabet[IndexIn(UpperAlphabet, c)] ELSE c

toUpperCaseChar(c) ==
    IF IsIn(LowerAlphabet, c) THEN UpperAlphabet[IndexIn(LowerAlphabet, c)] ELSE c

toLowerCase(str) ==
    [i \in 1..Len(str) |-> toLowerCaseChar(str[i])]

toUpperCase(str) ==
    [i \in 1..Len(str) |-> toUpperCaseChar(str[i])]

includes(str, needle) ==
    \E i \in 0..(Len(str) - Len(needle)) :
        \A j \in 1..Len(needle) : str[i + j] = needle[j]

RECURSIVE trimStart(_)
trimStart(str) ==
    IF str # <<>> /\ Head(str) \in WhiteSpace THEN trimStart(Tail(str)) ELSE str

RECURSIVE trimEnd(_)
trimEnd(str) ==
    IF str # <<>> /\ str[Len(str)] \in WhiteSpace
    THEN trimEnd(SubSeq(str, 1, Len(str) - 1))
    ELSE str

trim(str) ==
    trimEnd(trimStart(str))

removeCommas(str) ==
    SelectSeq(str, LAMBDA c : c # ",")

startsWith(str, prefix) ==
    /\ Len(str) >= Len(prefix)
    /\ SubSeq(str, 1, Len(prefix)) = prefix

---------------------------------------------------------------------------
(* JavaScript values and number arithmetic                                 *)

Num(n) ==
    [t |-> "number", v |-> n, s |-> <<>>]

PosInfinity ==
    [t |-> "inf", v |-> 0, s |-> <<>>]

NegInfinity ==
    [t |-> "ninf", v |-> 0, s |-> <<>>]

NaN ==
    [t |-> "nan", v |-> 0, s |-> <<>>]

Str(chars) ==
    [t |-> "string", v |-> 0, s |-> chars]

Undefined ==
    [t |-> "undefined", v |-> 0, s |-> <<>>]

JSNull ==
    [t |-> "null", v |-> 0, s |-> <<>>]

JSObject ==
    [t |-> "object", v |-> 0, s |-> <<>>]

isNumber(x) ==
    x.t \in {"number", "inf", "ninf", "nan"}

isString(x) ==
    x.t = "string"

isFinite(x) ==
    x.t = "number"

isNaN(x) ==
    x.t = "nan"

Truthy(x) ==
    CASE x.t = "number" -> x.v # 0
      [] x.t \in {"inf", "ninf", "object"} -> TRUE
      [] x.t = "string" -> Len(x.s) > 0
      [] OTHER -> FALSE

JSOr(a, b) ==
    IF Truthy(a) THEN a ELSE b

Sign(x) ==
    CASE x.t = "inf" -> 1
      [] x.t = "ninf" -> -1
      [] x.t = "number" -> (IF x.v > 0 THEN 1 ELSE IF x.v < 0 THEN -1 ELSE 0)
      [] OTHER -> 0

JSNeg(a) ==
    CASE a.t = "number" -> Num(0 - a.v)
      [] a.t = "inf" -> NegInfinity
      [] a.t = "ninf" -> PosInfinity
      [] OTHER -> NaN

JSAdd(a, b) ==
    CASE a.t = "nan" \/ b.t = "nan" -> NaN
      [] a.t = "number" /\ b.t = "number" -> Num(a.v + b.v)
      [] a.t = "number" -> b
      [] b.t = "number" -> a
      [] a.t = b.t -> a
      [] OTHER -> NaN

JSSub(a, b) ==
    JSAdd(a, JSNeg(b))

JSMul(a, b) ==
    CASE a.t = "nan" \/ b.t = "nan" -> NaN
      [] a.t = "number" /\ b.t = "number" -> Num(a.v * b.v)
      [] Sign(a) * Sign(b) > 0 -> PosInfinity
      [] Sign(a) * Sign(b) < 0 -> NegInfinity
      [] OTHER -> NaN

JSAbs(a) ==
    CASE a.t = "number" -> Num(IF a.v < 0 THEN 0 - a.v ELSE a.v)
      [] a.t \in {"inf", "ninf"} -> PosInfinity
      [] OTHER -> NaN

JSGt(a, b) ==
    CASE a.t = "nan" \/ b.t = "nan" -> FALSE
      [] a.t = "number" /\ b.t = "number" -> a.v > b.v
      [] a.t = "inf" -> b.t # "inf"
      [] b.t = "ninf" -> a.t # "ninf"
      [] OTHER -> FALSE

(* value * 0.01 compared from above: d > s * 0.01.  For whole amounts the   *)
(* double product s * 0.01 lies in [s/100, s/100 + ulp], so the comparison  *)
(* with a whole d is decided by 100 * d > s.                                *)
JSGtOnePercentOf(d, s) ==
    CASE d.t = "nan" \/ s.t = "nan" -> FALSE
      [] d.t = "number" /\ s.t = "number" -> 100 * d.v > s.v
      [] d.t = "inf" -> s.t # "inf"
      [] s.t = "ninf" -> d.t # "ninf"
      [] OTHER -> FALSE

RECURSIVE DigitsValue(_, _)
DigitsValue(str, acc) ==
    IF str # <<>> /\ IsIn(Digits, Head(str))
    THEN DigitsValue(Tail(str), 10 * acc + (IndexIn(Digits, Head(str)) - 1))
    ELSE acc

Unsigned(str) ==
    IF str # <<>> /\ Head(str) \in {"+", "-"} THEN Tail(str) ELSE str

(* parseFloat: leading white space is skipped, then the longest prefix     *)
(* that is a decimal literal or Infinity is converted; no such prefix is    *)
(* NaN.  Amounts are whole numbers: a fraction part is not in the model.    *)
parseFloat(str) ==
    LET t == trimStart(str)
        neg == t # <<>> /\ Head(t) = "-"
        u == Unsigned(t)
    IN  IF startsWith(u, <<"I","n","f","i","n","i","t","y">>)
        THEN (IF neg THEN NegInfinity ELSE PosInfinity)
        ELSE IF u # <<>> /\ IsIn(Digits, Head(u))
        THEN Num(IF neg THEN 0 - DigitsValue(u, 0) ELSE DigitsValue(u, 0))
        ELSE NaN

(* ToNumber, the coercion the * operator applies to a non-number operand.  *)
ToNumber(x) ==
    CASE isNumber(x) -> x
      [] x.t = "null" -> Num(0)
      [] x.t = "string" ->
           LET t == trim(x.s)
               u == Unsigned(t)
           IN  IF t = <<>> THEN Num(0)
               ELSE IF u = <<"I","n","f","i","n","i","t","y">> THEN parseFloat(t)
               ELSE IF u # <<>> /\ \A i \in 1..Len(u) : IsIn(Digits, u[i]) THEN parseFloat(t)
               ELSE NaN
      [] OTHER -> NaN

---------------------------------------------------------------------------
(* Configuration data of pdf.service.ts                                    *)

FINANCIAL_DOCUMENT_KEYWORDS ==
    << <<"i","n","v","o","i","c","e">>,
       <<"p","a","y","m","e","n","t">>,
       <<"a","m","o","u","n","t">>,
       <<"t","o","t","a","l">>,
       <<"d","u","e">>,
       <<"b","i","l","l">>,
       <<"$">>,
       <<"U","S","D">>,
       <<"E","U","R">>,
       <<"R","S",".">>,
       <<"I","N","R">>,
       <<"i","t","e","m">>,
       <<"q","u","a","n","t","i","t","y">>,
       <<"p","r","i","c","e">>,
       <<"e","a","r","n","i","n","g","s">>,
       <<"d","e","d","u","c","t","i","o","n","s">>,
       <<"s","a","l","a","r","y">>,
       <<"p","a","y","s","l","i","p">>,
       <<"b","a","s","i","c">>,
       <<"h","r","a">>,
       <<"a","l","l","o","w","a","n","c","e">>,
       <<"t","a","x">>,
       <<"n","e","t">>,
       <<"p","a","y","a","b","l","e">>,
       <<"g","r","o","s","s">> >>

(* contentToExtract.length < 50 for a PDF attachment *)
MinPdfTextLength ==
    50

(* terms of the content-based isPayslip (lines 125-127) *)
payslipContentTerms ==
    << <<"p","a","y","s","l","i","p">>,
       <<"s","a","l","a","r","y">>,
       <<"e","a","r","n","i","n","g","s">>,
       <<"d","e","d","u","c","t","i","o","n","s">>,
       <<"b","a","s","i","c">>,
       <<"h","r","a">> >>

(* terms of the item-name isPayslip used when the total is computed (278-281) *)
payslipItemTermsComputing ==
    << <<"b","a","s","i","c">>,
       <<"h","r","a">>,
       <<"e","a","r","n","i","n","g","s">>,
       <<"d","e","d","u","c","t","i","o","n","s">>,
       <<"a","l","l","o","w","a","n","c","e">>,
       <<"p","r","o","f","e","s","s","i","o","n","a","l"," ","t","a","x">>,
       <<"p","f">>,
       <<"p","r","o","v","i","d","e","n","t"," ","f","u","n","d">> >>

(* terms of the item-name isPayslip used when the total is validated (303) *)
payslipItemTermsValidating ==
    << <<"b","a","s","i","c">>,
       <<"h","r","a">> >>

(* deductionKeywords of the branch that computes the total (286) *)
deductionKeywordsComputing ==
    << <<"t","a","x">>,
       <<"p","f">>,
       <<"d","e","d","u","c","t","i","o","n">>,
       <<"p","r","o","f","e","s","s","i","o","n","a","l">>,
       <<"p","r","o","v","i","d","e","n","t">>,
       <<"l","e","a","v","e">> >>

(* deductionKeywords of the branch that validates the total (307) *)
deductionKeywordsValidating ==
    << <<"t","a","x">>,
       <<"p","f">>,
       <<"d","e","d","u","c","t","i","o","n">>,
       <<"p","r","o","f","e","s","s","i","o","n","a","l">>,
       <<"p","r","o","v","i","d","e","n","t">> >>

(* Math.abs(finalTotal - expectedTotal) > 100 *)
PayslipTolerance ==
    100

someIncluded(str, keywords) ==
    \E k \in 1..Len(keywords) : includes(str, keywords[k])

---------------------------------------------------------------------------
(* extractInvoiceData: the synchronous computations                        *)

(* the keyword scan without case folding of the content *)
hasFinancialContent_caseSensitive(content) ==
    \E k \in 1..Len(FINANCIAL_DOCUMENT_KEYWORDS) :
        includes(content, FINANCIAL_DOCUMENT_KEYWORDS[k])

(* FINANCIAL_DOCUMENT_KEYWORDS.some(k => content.toLowerCase().includes(k.toLowerCase())) *)
hasFinancialContent(content) ==
    \E k \in 1..Len(FINANCIAL_DOCUMENT_KEYWORDS) :
        includes(toLowerCase(content), toLowerCase(FINANCIAL_DOCUMENT_KEYWORDS[k]))

(* the content-based isPayslip that selects the prompt *)
detectPayslip(content) ==
    someIncluded(toLowerCase(content), payslipContentTerms)

parseAmount(value) ==
    IF isNumber(value) THEN value
    ELSE IF isString(value)
    THEN LET parsed == parseFloat(trim(removeCommas(value.s)))
         IN  IF isNaN(parsed) THEN Num(0) ELSE parsed
    ELSE Num(0)

(* item.item.trim() on a truthy item.item that is not a string is a TypeError *)
trimThrows(item) ==
    Truthy(item.item) /\ ~isString(item.item)

(* the filter without the trim of the name *)
keepsItem_noTrim(item) ==
    /\ Truthy(item.item)
    /\ (Truthy(item.price) \/ Truthy(item.total))

(* the filter: item.item && item.item.trim() && (item.price || item.total) *)
keepsItem(item) ==
    /\ Truthy(item.item)
    /\ trim(item.item.s) # <<>>
    /\ (Truthy(item.price) \/ Truthy(item.total))

(* the map: one cleaned item *)
cleanItem(item) ==
    LET price == parseAmount(JSOr(item.price, item.total))
        total == JSOr(parseAmount(item.total),
                      JSMul(price, ToNumber(JSOr(item.quantity, Num(1)))))
    IN  [item |-> trim(item.item.s),
         price |-> price,
         quantity |-> JSOr(item.quantity, Num(1)),
         total |-> total]

cleanItems(items) ==
    LET kept == SelectSeq(items, keepsItem)
    IN  [i \in 1..Len(kept) |-> cleanItem(kept[i])]

(* cleanedItems.map(i => i.item.toLowerCase()).join(' ') *)
RECURSIVE joinNames(_)
joinNames(items) ==
    IF items = <<>> THEN <<>>
    ELSE IF Len(items) = 1 THEN toLowerCase(items[1].item)
    ELSE toLowerCase(items[1].item) \o <<" ">> \o joinNames(Tail(items))

(* reduce((sum, item) => sum + (item.total || 0), 0) *)
RECURSIVE sumTotals(_, _)
sumTotals(items, sum) ==
    IF items = <<>> THEN sum
    ELSE sumTotals(Tail(items), JSAdd(sum, JSOr(items[1].total, Num(0))))

isDeduction(item, deductionKeywords) ==
    someIncluded(toLowerCase(item.item), deductionKeywords)

earningsOf(items, deductionKeywords) ==
    sumTotals(SelectSeq(items, LAMBDA i : ~isDeduction(i, deductionKeywords)), Num(0))

deductionsOf(items, deductionKeywords) ==
    sumTotals(SelectSeq(items, LAMBDA i : isDeduction(i, deductionKeywords)), Num(0))

(* lines 287-294: Net Payable = Earnings - Deductions *)
payslipComputed(cleanedItems) ==
    JSSub(earningsOf(cleanedItems, deductionKeywordsComputing),
          deductionsOf(cleanedItems, deductionKeywordsComputing))

(* lines 275-298: finalTotal === 0 && cleanedItems.length > 0, the total is computed *)
computeTotal(cleanedItems) ==
    IF someIncluded(joinNames(cleanedItems), payslipItemTermsComputing)
    THEN payslipComputed(cleanedItems)
    ELSE sumTotals(cleanedItems, Num(0))

(* lines 307-319: the provided total against earnings - deductions *)
payslipValidated(finalTotal, cleanedItems) ==
    LET expectedTotal ==
            JSSub(earningsOf(cleanedItems, deductionKeywordsValidating),
                  deductionsOf(cleanedItems, deductionKeywordsValidating))
    IN  IF JSGt(JSAbs(JSSub(finalTotal, expectedTotal)), Num(PayslipTolerance))
        THEN expectedTotal
        ELSE finalTotal

(* lines 321-325: the provided total against the sum of the items, 1% *)
genericValidated(finalTotal, cleanedItems) ==
    LET sumOfItems == sumTotals(cleanedItems, Num(0))
    IN  IF /\ JSGtOnePercentOf(JSAbs(JSSub(finalTotal, sumOfItems)), sumOfItems)
           /\ JSGt(sumOfItems, Num(0))
        THEN sumOfItems
        ELSE finalTotal

(* lines 299-327: finalTotal > 0, the provided total is validated *)
validateTotal(finalTotal, cleanedItems) ==
    IF someIncluded(joinNames(cleanedItems), payslipItemTermsValidating)
    THEN payslipValidated(finalTotal, cleanedItems)
    ELSE genericValidated(finalTotal, cleanedItems)

reconcileTotal(statedTotal, cleanedItems) ==
    LET finalTotal == parseAmount(statedTotal)
    IN  IF finalTotal = Num(0) /\ Len(cleanedItems) > 0
        THEN computeTotal(cleanedItems)
        ELSE IF JSGt(finalTotal, Num(0))
        THEN validateTotal(finalTotal, cleanedItems)
        ELSE finalTotal

c_USD ==
    <<"U","S","D">>

c_INR ==
    <<"I","N","R">>

c_EUR ==
    <<"E","U","R">>

c_GBP ==
    <<"G","B","P">>

(* detection from the content applied whatever currency was stated *)
inferCurrency_detectionFirst(statedCurrency, content) ==
    LET currency == JSOr(statedCurrency, Str(c_USD))
        contentUpper == toUpperCase(content)
    IN  IF \/ includes(contentUpper, <<"R","S",".">>)
           \/ includes(contentUpper, c_INR)
           \/ includes(contentUpper, <<"R","U","P","E","E","S">>)
        THEN Str(c_INR)
        ELSE IF includes(contentUpper, c_EUR) \/ includes(contentUpper, <<"euro-sign">>)
        THEN Str(c_EUR)
        ELSE IF includes(contentUpper, c_GBP) \/ includes(contentUpper, <<"pound-sign">>)
        THEN Str(c_GBP)
        ELSE currency

(* invoiceData.currency || 'USD', then detection from the content *)
inferCurrency(statedCurrency, content) ==
    LET currency == JSOr(statedCurrency, Str(c_USD))
        contentUpper == toUpperCase(content)
    IN  IF ~Truthy(currency) \/ currency = Str(c_USD)
        THEN IF \/ includes(contentUpper, <<"R","S",".">>)
                \/ includes(contentUpper, c_INR)
                \/ includes(contentUpper, <<"R","U","P","E","E","S">>)
             THEN Str(c_INR)
             ELSE IF includes(contentUpper, c_EUR) \/ includes(contentUpper, <<"euro-sign">>)
             THEN Str(c_EUR)
             ELSE IF includes(contentUpper, c_GBP) \/ includes(contentUpper, <<"pound-sign">>)
             THEN Str(c_GBP)
             ELSE currency
        ELSE currency

(* What a call hands back: null, a document, or (before the outer catch)   *)
(* a thrown fault.                                                         *)
NullResult ==
    [kind |-> "null", items |-> <<>>, total |-> Num(0), currency |-> Undefined]

Thrown ==
    [kind |-> "throw", items |-> <<>>, total |-> Num(0), currency |-> Undefined]

Pending ==
    [kind |-> "pending", items |-> <<>>, total |-> Num(0), currency |-> Undefined]

Document(items, total, currency) ==
    [kind |-> "doc", items |-> items, total |-> total, currency |-> currency]

(* lines 217-353: from the completion to the result, before the outer catch *)
processCompletion(completion, content) ==
    IF completion.kind # "candidate"
    THEN NullResult
    ELSE IF \E i \in 1..Len(completion.items) : trimThrows(completion.items[i])
    THEN Thrown
    ELSE LET cleanedItems == cleanItems(completion.items)
         IN  Document(cleanedItems,
                      reconcileTotal(completion.total, cleanedItems),
                      inferCurrency(completion.currency, content))

(* an outer catch that lets the fault through *)
catchAll_rethrow(result) ==
    result

(* the outer catch (354-357): any fault becomes null *)
catchAll(result) ==
    IF result.kind = "throw" THEN NullResult ELSE result

---------------------------------------------------------------------------
(* Inputs: message bodies, PDF texts and LLM completions                   *)

s_coffee ==
    <<"L","e","t","'","s"," ","c","a","t","c","h"," ","u","p"," ","f","o","r"," ","c","o","f","f","e","e"," ","t","o","m","o","r","r","o","w">>

s_taxdue ==
    <<"t","a","x"," ","d","u","e">>

s_INVOICE ==
    <<"I","N","V","O","I","C","E"," ","a","t","t","a","c","h","e","d">>

s_invoice1234 ==
    <<"I","n","v","o","i","c","e"," ","#","1","2","3","4",","," ","T","o","t","a","l",":"," ","$","5","0","0">>

s_payslip ==
    <<"P","a","y","s","l","i","p",":"," ","B","a","s","i","c"," ","3","0","0","0","0",","," ","H","R","A"," ","1","0","0","0","0",","," ","L","e","a","v","e"," ","8","0",","," ","P","F"," ","1","8","0","0">>

s_scan ==
    <<"S","c","a","n","1">>

s_pdflong ==
    <<"O","r","d","e","r"," ","7","7",":"," ","W","i","d","g","e","t"," ","5","0",","," ","G","a","d","g","e","t"," ","3","0",","," ","S","p","r","o","c","k","e","t"," ","2","0",","," ","C","o","g"," ","9"," ","e","a","c","h">>

s_rupees ==
    <<"R","s","."," ","5",",","0","0","0"," ","d","u","e">>

s_eurinr ==
    <<"P","a","y"," ","5"," ","E","U","R"," ","o","r"," ","4","0","0"," ","I","N","R">>

(* the euro and the pound sign are one character each *)
s_euro ==
    <<"euro-sign","9"," ","d","u","e">>

s_pound ==
    <<"b","i","l","l",":"," ","pound-sign","2","0">>

Bodies ==
    {s_coffee, s_taxdue, s_INVOICE, s_invoice1234, s_payslip,
     s_rupees, s_eurinr, s_euro, s_pound}

(* bodies of the calls that come with a PDF attachment *)
PdfBodies ==
    {s_coffee, s_taxdue, s_rupees}

(* extractTextFromPDF throws on an empty text, so a returned text is not empty *)
PdfTexts ==
    {s_scan, s_pdflong}

RawItem(label, price, quantity, total) ==
    [item |-> label, price |-> price, quantity |-> quantity, total |-> total]

ItemPool ==
    << RawItem(Str(<<"B","a","s","i","c">>), Num(30000), Num(1), Num(30000)),
       RawItem(Str(<<"H","R","A">>), Str(<<"1","0",",","0","0","0">>), Undefined, Undefined),
       RawItem(Str(<<"P","r","o","f","e","s","s","i","o","n","a","l"," ","T","a","x">>),
               Num(2000), Num(1), Num(2000)),
       RawItem(Str(<<"P","F">>), Num(1800), Num(1), Num(1800)),
       RawItem(Str(<<"L","e","a","v","e">>), Num(80), Num(1), Num(80)),
       RawItem(Str(<<"W","i","d","g","e","t">>), Num(25), Num(2), Undefined),
       RawItem(Str(<<"G","a","d","g","e","t">>), Num(30), JSNull, Num(30)),
       RawItem(Num(5), Num(10), Num(1), Num(10)),
       RawItem(Str(<<" ","F","e","e"," ">>), Str(<<"a","b","c">>), Undefined, Undefined),
       RawItem(Str(<<"B","u","l","k">>), Num(10), Str(<<"a","b","c">>), Undefined) >>

(* the largest number of items in one completion *)
MaxItems ==
    4

PoolIndexes ==
    [i \in 1..Len(ItemPool) |-> i]

ItemsAt(S) ==
    LET chosen == SelectSeq(PoolIndexes, LAMBDA i : i \in S)
    IN  [k \in 1..Len(chosen) |-> ItemPool[chosen[k]]]

ItemLists ==
    {ItemsAt(S) : S \in {T \in SUBSET (1..Len(ItemPool)) : Cardinality(T) <= MaxItems}}

(* raw items that exercise the normalizer: signed, zero and missing       *)
(* quantities, a provided total that differs from price * quantity, blank  *)
(* labels, comma-formatted strings, negative amounts                       *)
NormalizerPool ==
    << RawItem(Str(<<"R","e","f","u","n","d">>), Num(10), Num(0 - 2), Undefined),
       RawItem(Str(<<"S","a","m","p","l","e">>), Num(10), Num(0), Undefined),
       RawItem(Str(<<"D","i","s","c","o","u","n","t","e","d">>), Num(10), Num(3), Num(25)),
       RawItem(Str(<<" "," ">>), Num(5), Num(1), Num(5)),
       RawItem(Str(<<>>), Num(7), Num(1), Num(7)),
       RawItem(Str(<<"B","o","n","u","s">>), Str(<<"2","9",",","1","6","7">>), Undefined,
               Str(<<" ","2","9",",","1","6","7"," ">>)),
       RawItem(Str(<<"C","r","e","d","i","t">>), Num(0 - 15), Num(1), Num(0 - 15)) >>

NormalizerIndexes ==
    [i \in 1..Len(NormalizerPool) |-> i]

NormalizerItemsAt(S) ==
    LET chosen == SelectSeq(NormalizerIndexes, LAMBDA i : i \in S)
    IN  [k \in 1..Len(chosen) |-> NormalizerPool[chosen[k]]]

NormalizerLists ==
    {NormalizerItemsAt(S) :
        S \in {T \in SUBSET (1..Len(NormalizerPool)) : Cardinality(T) <= MaxItems}}

StatedTotals ==
    {Undefined, Num(0), Num(80), Num(999), Num(0 - 5), Num(29920),
     Str(<<"I","n","f","i","n","i","t","y">>)}

StatedCurrencies ==
    {Undefined, JSNull, Str(<<>>), Str(c_USD), Str(c_EUR), Str(<<"C","A","D">>),
     Str(<<"R","u","p","e","e","s">>)}

Completion(kind, items, total, currency) ==
    [kind |-> kind, items |-> items, total |-> total, currency |-> currency]

NoCompletion ==
    Completion("none", <<>>, Undefined, Undefined)

(* no content; content that is not JSON; JSON that is null, not an object, *)
(* an object without items, or with items that is not an array             *)
RejectedCompletions ==
    {Completion(k, <<>>, Undefined, Undefined) :
        k \in {"nocontent", "notjson", "jsonnull", "notobject", "noitems", "itemsnotarray"}}

(* candidates that vary the items and the stated total *)
TotalCandidates ==
    {Completion("candidate", items, total, Undefined) :
        items \in ItemLists \cup NormalizerLists, total \in StatedTotals}

(* candidates that vary the stated currency *)
CurrencyCandidates ==
    {Completion("candidate", items, Undefined, currency) :
        items \in {<<>>, ItemsAt({6})}, currency \in StatedCurrencies}

CandidateCompletions ==
    TotalCandidates \cup CurrencyCandidates

---------------------------------------------------------------------------
(* The call as a state machine: it suspends at the two awaits              *)

(* ---------------------------------------------------------------------- *)
(* EmailService (openai.service.ts:210-390): values of its locals          *)
(* ---------------------------------------------------------------------- *)

EmailData(sender, subject, body, pdfAttachment) ==
    [sender |-> sender, subject |-> subject, body |-> body,
     pdfAttachment |-> pdfAttachment]

NoEmail ==
    EmailData("", <<>>, <<>>, FALSE)

NoOperation ==
    [name |-> "none", email |-> NoEmail, id |-> 0]

(* summarizeEmail's result: summary, category, keywords *)
SummaryData(summary, category, keywords) ==
    [kind |-> "ok", summary |-> summary, category |-> category, keywords |-> keywords]

NoSummaryData ==
    [kind |-> "none", summary |-> "", category |-> "", keywords |-> {}]

SummarizeThrew ==
    [kind |-> "throw", summary |-> "", category |-> "", keywords |-> {}]

(* a row of emailSummaries; id and createdAt are given by the database at *)
(* the insert (0 before it)                                                *)
EmailSummary(email, data, invoice) ==
    [id |-> 0, createdAt |-> 0,
     sender |-> email.sender, subject |-> email.subject, body |-> email.body,
     summary |-> data.summary, category |-> data.category, keywords |-> data.keywords,
     invoiceData |-> invoice]

NoRecord ==
    EmailSummary(NoEmail, NoSummaryData, NullResult)

(* parseAmount has not returned yet *)
NotParsed ==
    [t |-> "pending", v |-> 0, s |-> <<>>]

VARIABLES
    pc,                \* "idle", "extractText", "screen", "awaitLLM", "done"
    emailBody,         \* argument emailBody
    pdfBuffer,         \* TRUE when the argument pdfBuffer is given
    contentToExtract,  \* local contentToExtract
    sourceType,        \* local sourceType
    isPayslip,         \* local isPayslip of line 125
    llmRequests,       \* requests sent to openai.chat.completions.create by this call
    completion,        \* what the LLM answered
    result,            \* what the call returned
    value,             \* argument value of parseAmount
    parsed,            \* what parseAmount returned
    store,             \* table emailSummaries, a record's id is its position
    svcPc,             \* where the EmailService call is: "idle", "summarizeEmail",
                       \* "extractInvoiceData", "insert", "update", "returned", "threw"
    svcOp,             \* the EmailService call: its name and arguments
    existing,          \* local existing of reSummarize
    summaryData,       \* local summaryData
    invoiceData,       \* local invoiceData
    svcError,          \* message of the Error the call threw, if it did
    batchPc,           \* where batchCreateSummaries is: "idle", "loop", "inner",
                       \* "summarizeEmail", "delay", "batchDelay", "prepare",
                       \* "extractInvoiceData", "insert", "returned"
    emails,            \* argument emails
    batchSize,         \* const batchSize of batchSummarizeEmails
    loopI,             \* let i of batchSummarizeEmails' outer loop
    loopJ,             \* let j of its inner loop
    results,           \* const results of batchSummarizeEmails
    errors,            \* const errors of batchSummarizeEmails
    prepareI,          \* let i of batchCreateSummaries' loop
    summariesToInsert, \* const summariesToInsert
    requested,         \* the summarizeEmail calls made so far and how each settled
    waited,            \* TRUE when a setTimeout elapsed since the last request
    summaries,         \* prop summaries of EmailDashboard
    selectedTab,       \* state selectedTab
    searchQuery,       \* state searchQuery
    debouncedSearchQuery, \* useDebounce(searchQuery, 300)
    page,              \* state page
    selectedIds,       \* state selectedIds, in insertion order
    deleting           \* the ids handleBatchDelete still has to delete

extractionVars ==
    <<pc, emailBody, pdfBuffer, contentToExtract, sourceType, isPayslip,
      llmRequests, completion, result>>

parseVars ==
    <<value, parsed>>

serviceVars ==
    <<store, svcPc, svcOp, existing, summaryData, invoiceData, svcError>>

batchVars ==
    <<batchPc, emails, batchSize, loopI, loopJ, results, errors, prepareI,
      summariesToInsert, requested, waited>>

serviceLocals ==
    <<svcPc, svcOp, existing, summaryData, invoiceData, svcError>>

dashboardVars ==
    <<summaries, selectedTab, searchQuery, debouncedSearchQuery, page, selectedIds,
      deleting>>

backendVars ==
    <<extractionVars, parseVars, serviceVars, batchVars>>

vars ==
    <<extractionVars, parseVars, serviceVars, batchVars, dashboardVars>>

(* the number of rows the dashboard is given *)
MaxRows ==
    3

(* the categories of the rows *)
cat_Work ==
    <<"W","o","r","k">>

cat_Promotion ==
    <<"P","r","o","m","o","t","i","o","n">>

cat_Newsletter ==
    <<"N","e","w","s","l","e","t","t","e","r">>

cat_Personal ==
    <<"P","e","r","s","o","n","a","l">>

(* the summaries App loaded: distinct ids (App.tsx:92-94), one row per tab *)
RowPool ==
    << [id |-> "s1", sender |-> <<"a","n","n">>, subject |-> <<"L","u","n","c","h">>,
        summary |-> <<"M","e","e","t">>, category |-> cat_Work,
        keywords |-> {<<"n","o","o","n">>}],
       [id |-> "s2", sender |-> <<"b","o","b">>, subject |-> <<"S","a","l","e">>,
        summary |-> <<"O","f","f","e","r">>, category |-> cat_Promotion,
        keywords |-> {<<"d","e","a","l">>}],
       [id |-> "s3", sender |-> <<"c","h","o">>, subject |-> <<"T","r","i","p">>,
        summary |-> <<"P","l","a","n">>, category |-> cat_Personal,
        keywords |-> {<<"s","e","a">>}],
       [id |-> "s4", sender |-> <<"d","a","n">>, subject |-> <<"N","e","w","s">>,
        summary |-> <<"D","i","g","e","s","t">>, category |-> cat_Newsletter,
        keywords |-> {<<"w","e","e","k">>}],
       [id |-> "s5", sender |-> <<"a","n","n">>, subject |-> <<"N","o","t","e">>,
        summary |-> <<"M","e","m","o">>, category |-> cat_Work,
        keywords |-> {<<"t","o","d","o">>}] >>

DashboardRows ==
    SubSeq(RowPool, 1, IF MaxRows < Len(RowPool) THEN MaxRows ELSE Len(RowPool))

(* EmailDashboard as mounted (lines 118-137), given the summaries App loaded *)
DashboardMounted ==
    /\ summaries = DashboardRows
    /\ selectedTab = "All"
    /\ searchQuery = <<>>
    /\ debouncedSearchQuery = <<>>
    /\ page = 0
    /\ selectedIds = <<>>
    /\ deleting = <<>>

(* no batchCreateSummaries call is running *)
BatchIdle ==
    /\ batchPc = "idle"
    /\ emails = <<>>
    /\ batchSize = Undefined
    /\ loopI = Undefined
    /\ loopJ = 0
    /\ results = <<>>
    /\ errors = <<>>
    /\ prepareI = 0
    /\ summariesToInsert = <<>>
    /\ requested = <<>>
    /\ waited = FALSE

(* no EmailService call is running and the table is empty *)
ServiceIdle ==
    /\ svcPc = "idle"
    /\ svcOp = NoOperation
    /\ existing = NoRecord
    /\ summaryData = NoSummaryData
    /\ invoiceData = NullResult
    /\ svcError = <<>>

ExtractionIdle ==
    /\ pc = "idle"
    /\ emailBody = <<>>
    /\ pdfBuffer = FALSE
    /\ contentToExtract = <<>>
    /\ sourceType = "email body"
    /\ isPayslip = FALSE
    /\ llmRequests = 0
    /\ completion = NoCompletion
    /\ result = Pending

Init ==
    /\ ExtractionIdle
    /\ value = Undefined
    /\ parsed = NotParsed
    /\ store = <<>>
    /\ ServiceIdle
    /\ BatchIdle
    /\ DashboardMounted

(* extractInvoiceData(emailBody, pdfBuffer?) is entered: lines 86-92 *)
BeginExtraction(body, withPdf) ==
    /\ pc = "idle"
    /\ emailBody' = body
    /\ pdfBuffer' = withPdf
    /\ contentToExtract' = body
    /\ sourceType' = "email body"
    /\ pc' = IF withPdf THEN "extractText" ELSE "screen"
    /\ UNCHANGED <<isPayslip, llmRequests, completion, result>>

(* extractInvoiceData(emailBody, pdfBuffer?) is called on its own *)
Call(body, withPdf) ==
    /\ svcPc = "idle"
    /\ BeginExtraction(body, withPdf)
    /\ UNCHANGED <<parseVars, serviceVars, batchVars, dashboardVars>>

(* await this.extractTextFromPDF(pdfBuffer) returns text: lines 94-96 *)
ExtractTextOk(text) ==
    /\ pc = "extractText"
    /\ contentToExtract' = text
    /\ sourceType' = "PDF attachment"
    /\ pc' = "screen"
    /\ UNCHANGED <<emailBody, pdfBuffer, isPayslip, llmRequests, completion, result>>
    /\ UNCHANGED <<parseVars, serviceVars, batchVars, dashboardVars>>

(* extractTextFromPDF throws: the inner catch keeps the email body: 97-101 *)
ExtractTextFail ==
    /\ pc = "extractText"
    /\ pc' = "screen"
    /\ UNCHANGED <<emailBody, pdfBuffer, contentToExtract, sourceType, isPayslip,
                   llmRequests, completion, result>>
    /\ UNCHANGED <<parseVars, serviceVars, batchVars, dashboardVars>>

(* lines 104-121: the gate *)
passesGate ==
    IF pdfBuffer /\ sourceType = "PDF attachment"
    THEN ~(Len(contentToExtract) < MinPdfTextLength)
    ELSE hasFinancialContent(contentToExtract)

(* lines 104-199: the gate, the flavor, the prompt, the request is sent *)
Screen ==
    /\ pc = "screen"
    /\ IF passesGate
       THEN /\ isPayslip' = detectPayslip(contentToExtract)
            /\ llmRequests' = llmRequests + 1
            /\ pc' = "awaitLLM"
            /\ UNCHANGED result
       ELSE /\ result' = catchAll(NullResult)
            /\ pc' = "done"
            /\ UNCHANGED <<isPayslip, llmRequests>>
    /\ UNCHANGED <<emailBody, pdfBuffer, contentToExtract, sourceType, completion>>
    /\ UNCHANGED <<parseVars, serviceVars, batchVars, dashboardVars>>

(* openai.chat.completions.create rejects: the outer catch returns null *)
RequestFails ==
    /\ pc = "awaitLLM"
    /\ result' = catchAll(Thrown)
    /\ pc' = "done"
    /\ UNCHANGED <<emailBody, pdfBuffer, contentToExtract, sourceType, isPayslip,
                   llmRequests, completion>>
    /\ UNCHANGED <<parseVars, serviceVars, batchVars, dashboardVars>>

(* the completion arrives: lines 217-353 run to the return *)
Respond(c) ==
    /\ pc = "awaitLLM"
    /\ completion' = c
    /\ result' = catchAll(processCompletion(c, contentToExtract))
    /\ pc' = "done"
    /\ UNCHANGED <<emailBody, pdfBuffer, contentToExtract, sourceType, isPayslip,
                   llmRequests>>
    /\ UNCHANGED <<parseVars, serviceVars, batchVars, dashboardVars>>

(* the call is over: its locals are gone *)
EndExtraction ==
    /\ pc = "done"
    /\ pc' = "idle"
    /\ emailBody' = <<>>
    /\ pdfBuffer' = FALSE
    /\ contentToExtract' = <<>>
    /\ sourceType' = "email body"
    /\ isPayslip' = FALSE
    /\ llmRequests' = 0
    /\ completion' = NoCompletion
    /\ result' = Pending

(* the caller has the result; the service is ready for the next call *)
Return ==
    /\ svcPc = "idle"
    /\ EndExtraction
    /\ UNCHANGED <<parseVars, serviceVars, batchVars, dashboardVars>>

Next ==
    \/ \E body \in Bodies : Call(body, FALSE)
    \/ \E body \in PdfBodies : Call(body, TRUE)
    \/ \E text \in PdfTexts : ExtractTextOk(text)
    \/ ExtractTextFail
    \/ Screen
    \/ RequestFails
    \/ \E c \in RejectedCompletions : Respond(c)
    \/ \E c \in CandidateCompletions : Respond(c)
    \/ Return

Spec ==
    Init /\ [][Next]_vars

(* ---------------------------------------------------------------------- *)
(* parseAmount on its own: the values are drawn first, then parsed         *)
(* ---------------------------------------------------------------------- *)

AmountAlphabet ==
    {"2", "9", ",", "a", " ", "-"}

(* the longest enumerated amount string *)
MaxAmountLength ==
    3

AmountStrings ==
    UNION {[1..n -> AmountAlphabet] : n \in 0..MaxAmountLength}

AmountInputs ==
    {Num(n) : n \in {0 - 5, 0, 7, 29167}}
        \cup {PosInfinity, Undefined, JSNull}
        \cup {Str(s) : s \in AmountStrings}
        \cup {Str(<<"2","9",",","1","6","7">>), Str(<<"1",",","0","0","0",",","0","0","0">>),
              Str(<<" ","5","8",",","3","3","3"," ">>), Str(<<"a","b","c">>),
              Str(<<"$","5","0","0">>), Str(<<"I","n","f","i","n","i","t","y">>)}

ParseInit ==
    /\ ExtractionIdle
    /\ store = <<>>
    /\ ServiceIdle
    /\ BatchIdle
    /\ DashboardMounted
    /\ value \in AmountInputs
    /\ parsed = NotParsed

(* parseAmount(value) runs: lines 245-254 *)
ParseAmountCall ==
    /\ parsed = NotParsed
    /\ parsed' = parseAmount(value)
    /\ UNCHANGED <<value, extractionVars, serviceVars, batchVars, dashboardVars>>

(* the caller has the number *)
ParseAmountReturn ==
    /\ parsed # NotParsed
    /\ \E v \in AmountInputs : value' = v
    /\ parsed' = NotParsed
    /\ UNCHANGED <<extractionVars, serviceVars, batchVars, dashboardVars>>

ParseNext ==
    \/ ParseAmountCall
    \/ ParseAmountReturn

ParseSpec ==
    ParseInit /\ [][ParseNext]_vars

(* ---------------------------------------------------------------------- *)
(* EmailService.createSummary and reSummarize (openai.service.ts:214-381)  *)
(* ---------------------------------------------------------------------- *)

(* createSummary's financialKeywords, as written: lines 224-228 *)
financialKeywords ==
    << <<"i","n","v","o","i","c","e">>,
       <<"b","i","l","l">>,
       <<"p","a","y","m","e","n","t"," ","d","u","e">>,
       <<"a","m","o","u","n","t"," ","d","u","e">>,
       <<"$">>,
       <<"t","o","t","a","l",":">>,
       <<"i","t","e","m",":">>,
       <<"q","u","a","n","t","i","t","y">>,
       <<"p","a","y","s","l","i","p">>,
       <<"s","a","l","a","r","y">>,
       <<"e","a","r","n","i","n","g","s">>,
       <<"d","e","d","u","c","t","i","o","n","s">>,
       <<"b","a","s","i","c">>,
       <<"h","r","a">>,
       <<"a","l","l","o","w","a","n","c","e">>,
       <<"t","a","x">>,
       <<"n","e","t"," ","p","a","y","a","b","l","e">>,
       <<"g","r","o","s","s">>,
       <<"R","S",".">>,
       <<"I","N","R">>,
       <<"r","e","c","e","i","p","t">> >>

(* lines 229-233: the keywords are compared with the lower-cased subject and body *)
hasFinancialKeywords(email) ==
    \E i \in 1..Len(financialKeywords) :
        \/ includes(toLowerCase(email.subject), financialKeywords[i])
        \/ includes(toLowerCase(email.body), financialKeywords[i])

s_lunch ==
    <<"L","u","n","c","h","?">>

s_yourbill ==
    <<"Y","o","u","r"," ","b","i","l","l">>

(* the emails handed to createSummary *)
Emails ==
    {EmailData("ann@example.com", s_lunch, s_coffee, FALSE),
     EmailData("bob@example.com", s_lunch, s_taxdue, FALSE),
     EmailData("bob@example.com", s_yourbill, s_coffee, FALSE),
     EmailData("ann@example.com", s_lunch, s_coffee, TRUE),
     EmailData("raj@example.com", s_lunch, s_rupees, FALSE)}

(* what summarizeEmail can answer *)
SummaryResults ==
    {SummaryData("Asks to settle an amount", "Invoice", {"amount", "due"}),
     SummaryData("Proposes a meeting", "Work", {"meeting"})}

(* the largest number of rows in emailSummaries *)
MaxRecords ==
    2

(* the completions the LLM gives to extractions started by the EmailService *)
ServiceCompletions ==
    {Completion("noitems", <<>>, Undefined, Undefined),
     Completion("candidate", ItemsAt({6}), Undefined, Undefined),
     Completion("candidate", ItemsAt({7}), Num(30), Str(c_EUR))}

(* line 349: throw new Error('Email summary not found') *)
e_notFound ==
    <<"E","m","a","i","l"," ","s","u","m","m","a","r","y"," ","n","o","t"," ","f","o","u","n","d">>

(* line 109: throw new Error('No response from OpenAI') *)
e_noResponse ==
    <<"N","o"," ","r","e","s","p","o","n","s","e"," ","f","r","o","m"," ","O","p","e","n","A","I">>

(* the rejection of extractInvoiceData, were its outer catch to let one out *)
e_extraction ==
    <<"e","x","t","r","a","c","t","i","o","n"," ","f","a","i","l","e","d">>

(* lines 241-249: newSummary *)
newSummary(email, data, invoice) ==
    EmailSummary(email, data, invoice)

(* db.insert(emailSummaries).values(newSummary) that leaves out a row without invoiceData *)
dbInsert_onlyWithInvoiceData(table, row) ==
    IF row.invoiceData = NullResult
    THEN table
    ELSE Append(table, [row EXCEPT !.id = Len(table) + 1, !.createdAt = Len(table) + 1])

(* line 251: db.insert(emailSummaries).values(newSummary); the new row's  *)
(* id is fresh and its createdAt is the time of the insert, both taken     *)
(* here from the number of rows inserted so far                            *)
dbInsert(table, row) ==
    Append(table, [row EXCEPT !.id = Len(table) + 1, !.createdAt = Len(table) + 1])

(* getSummaryById that answers with the first row when the id is unknown *)
getSummaryById_firstRow(table, id) ==
    IF \E k \in 1..Len(table) : table[k].id = id
    THEN table[CHOOSE k \in 1..Len(table) : table[k].id = id]
    ELSE IF table # <<>> THEN table[1] ELSE NoRecord

(* lines 338-341: getSummaryById, null (NoRecord) when no row has the id *)
getSummaryById(table, id) ==
    IF \E k \in 1..Len(table) : table[k].id = id
    THEN table[CHOOSE k \in 1..Len(table) : table[k].id = id]
    ELSE NoRecord

(* the update without its where clause *)
dbUpdate_everyRow(table, id, data, invoice) ==
    [k \in 1..Len(table) |->
        [table[k] EXCEPT !.summary = data.summary,
                         !.category = data.category,
                         !.keywords = data.keywords,
                         !.invoiceData = invoice]]

(* the update without its invoiceData column *)
dbUpdate_withoutInvoiceData(table, id, data, invoice) ==
    [k \in 1..Len(table) |->
        IF table[k].id = id
        THEN [table[k] EXCEPT !.summary = data.summary,
                              !.category = data.category,
                              !.keywords = data.keywords]
        ELSE table[k]]

(* lines 367-377: db.update(emailSummaries).set({...}).where(eq(id)) *)
dbUpdate(table, id, data, invoice) ==
    [k \in 1..Len(table) |->
        IF table[k].id = id
        THEN [table[k] EXCEPT !.summary = data.summary,
                              !.category = data.category,
                              !.keywords = data.keywords,
                              !.invoiceData = invoice]
        ELSE table[k]]

(* createSummary(email) is called: it awaits summarizeEmail (line 215) *)
CreateSummary(email) ==
    /\ svcPc = "idle"
    /\ pc = "idle"
    /\ Len(store) < MaxRecords
    /\ svcOp' = [name |-> "createSummary", email |-> email, id |-> 0]
    /\ svcPc' = "summarizeEmail"
    /\ UNCHANGED <<store, existing, summaryData, invoiceData, svcError, extractionVars,
                   parseVars, batchVars, dashboardVars>>

(* reSummarize(id) is called: lines 346-358, up to the await of summarizeEmail *)
ReSummarize(id) ==
    /\ svcPc = "idle"
    /\ pc = "idle"
    /\ existing' = getSummaryById(store, id)
    /\ IF existing' # NoRecord
       THEN /\ svcOp' = [name |-> "reSummarize",
                         email |-> EmailData(existing'.sender, existing'.subject,
                                             existing'.body, FALSE),
                         id |-> id]
            /\ svcPc' = "summarizeEmail"
            /\ UNCHANGED svcError
       ELSE /\ svcOp' = [name |-> "reSummarize", email |-> NoEmail, id |-> id]
            /\ svcPc' = "threw"
            /\ svcError' = e_notFound
    /\ UNCHANGED <<store, summaryData, invoiceData, extractionVars, parseVars, batchVars, dashboardVars>>

(* summarizeEmail throws (openai.service.ts:132-141): the call rejects *)
SummarizeEmailThrows ==
    /\ svcPc = "summarizeEmail"
    /\ summaryData' = SummarizeThrew
    /\ svcPc' = "threw"
    /\ svcError' = e_noResponse
    /\ UNCHANGED <<store, svcOp, existing, invoiceData, extractionVars, parseVars, batchVars, dashboardVars>>

(* createSummary after summarizeEmail: lines 217-239 *)
CreateSummary_Summarized(data) ==
    /\ svcPc = "summarizeEmail"
    /\ svcOp.name = "createSummary"
    /\ summaryData' = data
    /\ invoiceData' = NullResult
    /\ IF \/ data.category = "Invoice"
          \/ hasFinancialKeywords(svcOp.email)
          \/ svcOp.email.pdfAttachment
       THEN /\ BeginExtraction(svcOp.email.body, svcOp.email.pdfAttachment)
            /\ svcPc' = "extractInvoiceData"
       ELSE /\ svcPc' = "insert"
            /\ UNCHANGED extractionVars
    /\ UNCHANGED <<store, svcOp, existing, svcError, parseVars, batchVars, dashboardVars>>

(* reSummarize after summarizeEmail: lines 360-365 *)
ReSummarize_Summarized(data) ==
    /\ svcPc = "summarizeEmail"
    /\ svcOp.name = "reSummarize"
    /\ summaryData' = data
    /\ IF data.category = "Invoice" /\ existing.invoiceData = NullResult
       THEN /\ invoiceData' = existing.invoiceData
            /\ BeginExtraction(existing.body, FALSE)
            /\ svcPc' = "extractInvoiceData"
       ELSE /\ invoiceData' = IF data.category # "Invoice"
                              THEN NullResult
                              ELSE existing.invoiceData
            /\ svcPc' = "update"
            /\ UNCHANGED extractionVars
    /\ UNCHANGED <<store, svcOp, existing, svcError, parseVars, batchVars, dashboardVars>>

(* the awaited extractInvoiceData settles: invoiceData = await ... *)
ExtractionSettles ==
    /\ svcPc = "extractInvoiceData"
    /\ pc = "done"
    /\ IF result.kind = "throw"
       THEN /\ svcPc' = "threw"
            /\ svcError' = e_extraction
            /\ UNCHANGED invoiceData
       ELSE /\ invoiceData' = result
            /\ svcPc' = IF svcOp.name = "createSummary" THEN "insert" ELSE "update"
            /\ UNCHANGED svcError
    /\ UNCHANGED <<store, svcOp, existing, summaryData, extractionVars, parseVars, batchVars, dashboardVars>>

(* createSummary: lines 241-253, the row is inserted and returned *)
CreateSummary_Insert ==
    /\ svcPc = "insert"
    /\ store' = dbInsert(store, newSummary(svcOp.email, summaryData, invoiceData))
    /\ svcPc' = "returned"
    /\ UNCHANGED <<svcOp, existing, summaryData, invoiceData, svcError, extractionVars,
                   parseVars, batchVars, dashboardVars>>

(* reSummarize: lines 367-380, the row is updated and returned *)
ReSummarize_Update ==
    /\ svcPc = "update"
    /\ store' = dbUpdate(store, svcOp.id, summaryData, invoiceData)
    /\ svcPc' = "returned"
    /\ UNCHANGED <<svcOp, existing, summaryData, invoiceData, svcError, extractionVars,
                   parseVars, batchVars, dashboardVars>>

(* the caller has the row or the error: the locals of the call are gone *)
Settle ==
    /\ svcPc \in {"returned", "threw"}
    /\ svcPc' = "idle"
    /\ svcOp' = NoOperation
    /\ existing' = NoRecord
    /\ summaryData' = NoSummaryData
    /\ invoiceData' = NullResult
    /\ svcError' = <<>>
    /\ IF pc = "done" THEN EndExtraction ELSE UNCHANGED extractionVars
    /\ UNCHANGED <<store, parseVars, batchVars, dashboardVars>>

(* POST /summaries/:id/resummarize (emails.routes.ts:164-177): the status  *)
(* of the reply once reSummarize has returned or thrown                    *)
resummarizeStatus ==
    IF svcPc = "returned" THEN 200
    ELSE IF includes(svcError, <<"n","o","t"," ","f","o","u","n","d">>) THEN 404
    ELSE 500

(* the steps inside an extraction started by the EmailService *)
ExtractionStep ==
    /\ svcPc = "extractInvoiceData"
    /\ \/ \E text \in PdfTexts : ExtractTextOk(text)
       \/ ExtractTextFail
       \/ Screen
       \/ RequestFails
       \/ \E c \in ServiceCompletions : Respond(c)

ServiceNext ==
    \/ \E email \in Emails : CreateSummary(email)
    \/ \E id \in 1..MaxRecords : ReSummarize(id)
    \/ SummarizeEmailThrows
    \/ \E data \in SummaryResults : CreateSummary_Summarized(data)
    \/ \E data \in SummaryResults : ReSummarize_Summarized(data)
    \/ ExtractionStep
    \/ ExtractionSettles
    \/ CreateSummary_Insert
    \/ ReSummarize_Update
    \/ Settle

ServiceSpec ==
    Init /\ [][ServiceNext]_vars

(* ---------------------------------------------------------------------- *)
(* EmailService.batchCreateSummaries (openai.service.ts:259-318) and the   *)
(* OpenAIService.batchSummarizeEmails it awaits (lines 144-199)            *)
(* ---------------------------------------------------------------------- *)

(* parseInt(str, 10): leading white space, a sign, then decimal digits;    *)
(* NaN when no digit follows                                               *)
parseInt(str) ==
    LET t == trimStart(str)
        negative == t # <<>> /\ Head(t) = "-"
        u == IF t # <<>> /\ Head(t) \in {"-", "+"} THEN Tail(t) ELSE t
    IN  IF u # <<>> /\ IsIn(Digits, Head(u))
        THEN Num(IF negative THEN 0 - DigitsValue(u, 0) ELSE DigitsValue(u, 0))
        ELSE NaN

(* an argument of Array.prototype.slice as a position in 0..len *)
sliceIndex(x, len) ==
    CASE x.t = "number" /\ x.v < 0 -> IF len + x.v < 0 THEN 0 ELSE len + x.v
      [] x.t = "number" -> IF x.v > len THEN len ELSE x.v
      [] x.t = "inf" -> len
      [] OTHER -> 0

(* line 157: emails.slice(i, i + batchSize) *)
slice(list, start, end) ==
    LET from == sliceIndex(start, Len(list))
        to == sliceIndex(end, Len(list))
    IN  IF from < to THEN SubSeq(list, from + 1, to) ELSE <<>>

(* line 150: the default of process.env.OPENAI_BATCH_SIZE *)
DefaultBatchSize ==
    Str(<<"5">>)

(* the values process.env.OPENAI_BATCH_SIZE can hold *)
BatchSizeSettings ==
    {Undefined, Str(<<"0">>), Str(<<"1">>), Str(<<"2">>), Str(<<"a","l","l">>)}

s_standup ==
    <<"S","t","a","n","d","u","p">>

(* the emails handed to batchCreateSummaries *)
BatchEmails ==
    {EmailData("ann@example.com", s_lunch, s_coffee, FALSE),
     EmailData("bob@example.com", s_yourbill, s_taxdue, FALSE),
     EmailData("cho@example.com", s_standup, s_coffee, FALSE)}

(* the lists of distinct emails of a given length *)
BatchLists(length) ==
    {list \in [1..length -> BatchEmails] :
        \A a, b \in 1..length : a # b => list[a] # list[b]}

(* what summarizeEmail answers for an email: a summary of that email, its  *)
(* keywords taken from it, and one of the categories                       *)
SummaryOf(email, category) ==
    SummaryData(<<"summary of", email.sender, email.subject, email.body>>,
                category, {email.subject})

BatchCategories ==
    {"Invoice", "Work"}

(* the completions the LLM gives to extractions started by a batch *)
BatchCompletions ==
    {Completion("noitems", <<>>, Undefined, Undefined),
     Completion("candidate", ItemsAt({6}), Undefined, Undefined)}

(* line 313: db.insert(emailSummaries).values(summariesToInsert) *)
RECURSIVE dbInsertAll(_, _)
dbInsertAll(table, rows) ==
    IF rows = <<>> THEN table ELSE dbInsertAll(dbInsert(table, Head(rows)), Tail(rows))

(* const batch of line 157 *)
batch ==
    slice(emails, loopI, JSAdd(loopI, batchSize))

(* const emailNumber of line 162 *)
emailNumber ==
    JSAdd(loopI, Num(loopJ + 1))

(* lines 260-264, 148-151: an empty list returns at once; otherwise        *)
(* batchSummarizeEmails is awaited and reads its batch size                *)
BatchCreateSummaries(list, setting) ==
    /\ batchPc = "idle"
    /\ svcPc = "idle"
    /\ pc = "idle"
    /\ emails' = list
    /\ IF Len(list) = 0
       THEN /\ batchPc' = "returned"
            /\ UNCHANGED <<batchSize, loopI>>
       ELSE /\ batchPc' = "loop"
            /\ batchSize' = parseInt(JSOr(setting, DefaultBatchSize).s)
            /\ loopI' = Num(0)
    /\ UNCHANGED <<loopJ, results, errors, prepareI, summariesToInsert, requested, waited>>
    /\ UNCHANGED <<store, extractionVars, parseVars, serviceLocals, dashboardVars>>

(* line 156: i < emails.length, then line 160 or the return of line 198 *)
LoopTest ==
    /\ batchPc = "loop"
    /\ IF JSGt(Num(Len(emails)), loopI)
       THEN /\ batchPc' = "inner"
            /\ loopJ' = 0
            /\ UNCHANGED prepareI
       ELSE /\ batchPc' = "prepare"
            /\ prepareI' = 0
            /\ UNCHANGED loopJ
    /\ UNCHANGED <<emails, batchSize, loopI, results, errors, summariesToInsert,
                   requested, waited>>
    /\ UNCHANGED <<store, extractionVars, parseVars, serviceLocals, dashboardVars>>

(* line 160: j < batch.length, then the request of line 166; after the     *)
(* inner loop lines 183-187 and the i += batchSize of line 156             *)
InnerTest ==
    /\ batchPc = "inner"
    /\ IF loopJ < Len(batch)
       THEN /\ batchPc' = "summarizeEmail"
            /\ requested' = Append(requested, [email |-> batch[loopJ + 1],
                                               answer |-> NoSummaryData])
            /\ waited' = FALSE
            /\ UNCHANGED loopI
       ELSE /\ IF JSGt(Num(Len(emails)), JSAdd(loopI, batchSize))
               THEN /\ batchPc' = "batchDelay"
                    /\ UNCHANGED loopI
               ELSE /\ batchPc' = "loop"
                    /\ loopI' = JSAdd(loopI, batchSize)
            /\ UNCHANGED <<requested, waited>>
    /\ UNCHANGED <<emails, batchSize, loopJ, results, errors, prepareI, summariesToInsert>>
    /\ UNCHANGED <<store, extractionVars, parseVars, serviceLocals, dashboardVars>>

(* lines 166-174: summarizeEmail resolved; the delay follows unless this   *)
(* was the last email                                                      *)
SummarizeEmailResolves(category) ==
    /\ batchPc = "summarizeEmail"
    /\ LET data == SummaryOf(batch[loopJ + 1], category)
       IN  /\ results' = Append(results, data)
           /\ requested' = [requested EXCEPT ![Len(requested)].answer = data]
    /\ IF JSGt(Num(Len(emails)), emailNumber)
       THEN /\ batchPc' = "delay"
            /\ UNCHANGED loopJ
       ELSE /\ batchPc' = "inner"
            /\ loopJ' = loopJ + 1
    /\ UNCHANGED <<emails, batchSize, loopI, errors, prepareI, summariesToInsert, waited>>
    /\ UNCHANGED <<store, extractionVars, parseVars, serviceLocals, dashboardVars>>

(* lines 175-179: summarizeEmail rejected, the catch records the error *)
SummarizeEmailRejects ==
    /\ batchPc = "summarizeEmail"
    /\ errors' = Append(errors, batch[loopJ + 1])
    /\ requested' = [requested EXCEPT ![Len(requested)].answer = SummarizeThrew]
    /\ batchPc' = "inner"
    /\ loopJ' = loopJ + 1
    /\ UNCHANGED <<emails, batchSize, loopI, results, prepareI, summariesToInsert, waited>>
    /\ UNCHANGED <<store, extractionVars, parseVars, serviceLocals, dashboardVars>>

(* line 173: the setTimeout of delay elapsed *)
DelayElapses ==
    /\ batchPc = "delay"
    /\ waited' = TRUE
    /\ batchPc' = "inner"
    /\ loopJ' = loopJ + 1
    /\ UNCHANGED <<emails, batchSize, loopI, results, errors, prepareI, summariesToInsert,
                   requested>>
    /\ UNCHANGED <<store, extractionVars, parseVars, serviceLocals, dashboardVars>>

(* line 186: the setTimeout of batchDelay elapsed, then i += batchSize *)
BatchDelayElapses ==
    /\ batchPc = "batchDelay"
    /\ waited' = TRUE
    /\ batchPc' = "loop"
    /\ loopI' = JSAdd(loopI, batchSize)
    /\ UNCHANGED <<emails, batchSize, loopJ, results, errors, prepareI, summariesToInsert,
                   requested>>
    /\ UNCHANGED <<store, extractionVars, parseVars, serviceLocals, dashboardVars>>

(* lines 269-298: emails[i] is paired with summaries[i]; the extraction is *)
(* awaited when the category, the keywords or an attachment ask for it;    *)
(* after the loop lines 312-317                                            *)
PrepareTest ==
    /\ batchPc = "prepare"
    /\ IF prepareI < Len(emails) /\ prepareI < Len(results)
       THEN LET email == emails[prepareI + 1]
                data == results[prepareI + 1]
            IN  IF \/ data.category = "Invoice"
                   \/ hasFinancialKeywords(email)
                   \/ email.pdfAttachment
                THEN /\ BeginExtraction(email.body, email.pdfAttachment)
                     /\ batchPc' = "extractInvoiceData"
                     /\ UNCHANGED <<prepareI, summariesToInsert>>
                ELSE /\ summariesToInsert' =
                            Append(summariesToInsert, newSummary(email, data, NullResult))
                     /\ prepareI' = prepareI + 1
                     /\ UNCHANGED <<batchPc, extractionVars>>
       ELSE /\ batchPc' = IF summariesToInsert # <<>> THEN "insert" ELSE "returned"
            /\ UNCHANGED <<prepareI, summariesToInsert, extractionVars>>
    /\ UNCHANGED <<emails, batchSize, loopI, loopJ, results, errors, requested, waited>>
    /\ UNCHANGED <<store, parseVars, serviceLocals, dashboardVars>>

(* lines 278, 295, 300-308: extractInvoiceData settled, the row is pushed *)
BatchExtractionSettles ==
    /\ batchPc = "extractInvoiceData"
    /\ pc = "done"
    /\ summariesToInsert' =
            Append(summariesToInsert,
                   newSummary(emails[prepareI + 1], results[prepareI + 1], result))
    /\ prepareI' = prepareI + 1
    /\ batchPc' = "prepare"
    /\ EndExtraction
    /\ UNCHANGED <<emails, batchSize, loopI, loopJ, results, errors, requested, waited>>
    /\ UNCHANGED <<store, parseVars, serviceLocals, dashboardVars>>

(* lines 312-315: the one insert of every prepared row *)
BatchInsert ==
    /\ batchPc = "insert"
    /\ store' = dbInsertAll(store, summariesToInsert)
    /\ batchPc' = "returned"
    /\ UNCHANGED <<emails, batchSize, loopI, loopJ, results, errors, prepareI,
                   summariesToInsert, requested, waited>>
    /\ UNCHANGED <<extractionVars, parseVars, serviceLocals, dashboardVars>>

(* line 317: the call has returned and its locals are gone *)
BatchSettle ==
    /\ batchPc = "returned"
    /\ batchPc' = "idle"
    /\ emails' = <<>>
    /\ batchSize' = Undefined
    /\ loopI' = Undefined
    /\ loopJ' = 0
    /\ results' = <<>>
    /\ errors' = <<>>
    /\ prepareI' = 0
    /\ summariesToInsert' = <<>>
    /\ requested' = <<>>
    /\ waited' = FALSE
    /\ UNCHANGED <<store, extractionVars, parseVars, serviceLocals, dashboardVars>>

(* the steps inside an extraction started by batchCreateSummaries *)
BatchExtractionStep ==
    /\ batchPc = "extractInvoiceData"
    /\ \/ \E text \in PdfTexts : ExtractTextOk(text)
       \/ ExtractTextFail
       \/ Screen
       \/ RequestFails
       \/ \E c \in BatchCompletions : Respond(c)

BatchNext ==
    \/ \E length \in 0..MaxRecords : \E list \in BatchLists(length) :
            \E setting \in BatchSizeSettings :
                Len(store) + length <= MaxRecords /\ BatchCreateSummaries(list, setting)
    \/ LoopTest
    \/ InnerTest
    \/ \E category \in BatchCategories : SummarizeEmailResolves(category)
    \/ SummarizeEmailRejects
    \/ DelayElapses
    \/ BatchDelayElapses
    \/ PrepareTest
    \/ BatchExtractionStep
    \/ BatchExtractionSettles
    \/ BatchInsert
    \/ BatchSettle

BatchSpec ==
    Init /\ [][BatchNext]_vars

(* the event loop runs every continuation that is ready: a timer that was  *)
(* set elapses, a request that was sent completes or fails                 *)
BatchFairSpec ==
    Init /\ [][BatchNext]_vars /\ WF_vars(BatchNext)


(* ---------------------------------------------------------------------- *)
(* EmailDashboard (frontend/src/components/EmailDashboard.tsx:110-308)     *)
(* ---------------------------------------------------------------------- *)

(* the page size: ROWS_PER_PAGE is 50 at line 77, taken smaller here so    *)
(* that the rows of the model fill more than one page                      *)
RowsPerPage ==
    2

GmailTabs ==
    {"Primary", "Promotions", "Social", "All"}

(* lines 60-75 *)
mapCategoryToGmailTab(category) ==
    CASE category \in {cat_Promotion, cat_Newsletter} -> "Promotions"
      [] category = cat_Personal -> "Social"
      [] OTHER -> "Primary"

(* what the user types into the search field *)
SearchQueries ==
    {<<>>, <<" ">>, <<"A","N","N">>}

(* lines 155-164 *)
tabFilteredSummaries ==
    IF selectedTab = "All"
    THEN summaries
    ELSE SelectSeq(summaries, LAMBDA s : mapCategoryToGmailTab(s.category) = selectedTab)

(* lines 167-182 *)
filteredSummaries ==
    IF trim(debouncedSearchQuery) = <<>>
    THEN tabFilteredSummaries
    ELSE LET query == toLowerCase(debouncedSearchQuery)
         IN  SelectSeq(tabFilteredSummaries,
                       LAMBDA s : \/ includes(toLowerCase(s.sender), query)
                                  \/ includes(toLowerCase(s.subject), query)
                                  \/ includes(toLowerCase(s.summary), query)
                                  \/ includes(toLowerCase(s.category), query)
                                  \/ \E k \in s.keywords : includes(toLowerCase(k), query))

(* lines 185-189 *)
paginatedSummaries ==
    slice(filteredSummaries, Num(page * RowsPerPage), Num(page * RowsPerPage + RowsPerPage))

(* line 191: Math.ceil(filteredSummaries.length / ROWS_PER_PAGE) *)
totalPages ==
    (Len(filteredSummaries) + RowsPerPage - 1) \div RowsPerPage

(* paginatedSummaries.map((s) => s.id) *)
pageIds ==
    [k \in 1..Len(paginatedSummaries) |-> paginatedSummaries[k].id]

(* the values of a sequence *)
Range(seq) ==
    {seq[k] : k \in 1..Len(seq)}

(* lines 195-199 *)
handleTabChange(newValue) ==
    /\ selectedTab' = newValue
    /\ page' = 0
    /\ selectedIds' = <<>>
    /\ UNCHANGED <<summaries, searchQuery, debouncedSearchQuery, deleting>>
    /\ UNCHANGED backendVars

(* lines 201-204 *)
handleSearchChange(text) ==
    /\ searchQuery' = text
    /\ page' = 0
    /\ UNCHANGED <<summaries, selectedTab, debouncedSearchQuery, selectedIds, deleting>>
    /\ UNCHANGED backendVars

(* lines 80-94: the timer of useDebounce fires *)
DebounceElapses ==
    /\ debouncedSearchQuery # searchQuery
    /\ debouncedSearchQuery' = searchQuery
    /\ UNCHANGED <<summaries, selectedTab, searchQuery, page, selectedIds, deleting>>
    /\ UNCHANGED backendVars

(* lines 206-212 *)
handleSelectAll ==
    /\ selectedIds' = IF Len(selectedIds) = Len(paginatedSummaries) THEN <<>> ELSE pageIds
    /\ UNCHANGED <<summaries, selectedTab, searchQuery, debouncedSearchQuery, page, deleting>>
    /\ UNCHANGED backendVars

(* lines 214-224, called from the checkbox of a displayed row (lines 695-700) *)
handleSelectOne(id) ==
    /\ id \in Range(pageIds)
    /\ selectedIds' = IF id \in Range(selectedIds)
                      THEN SelectSeq(selectedIds, LAMBDA x : x # id)
                      ELSE Append(selectedIds, id)
    /\ UNCHANGED <<summaries, selectedTab, searchQuery, debouncedSearchQuery, page, deleting>>
    /\ UNCHANGED backendVars

(* lines 226-231: the user confirmed; the loop runs over the selectedIds   *)
(* of this render and awaits the first onDelete                            *)
handleBatchDelete ==
    /\ deleting = <<>>
    /\ selectedIds # <<>>
    /\ deleting' = selectedIds
    /\ UNCHANGED <<summaries, selectedTab, searchQuery, debouncedSearchQuery, page,
                   selectedIds>>
    /\ UNCHANGED backendVars

(* lines 231-235 and App.tsx:141-150: onDelete settled; App reloaded the   *)
(* summaries when the deletion succeeded; after the last id the selection  *)
(* is cleared                                                              *)
OnDeleteSettles(deleted) ==
    /\ deleting # <<>>
    /\ summaries' = IF deleted
                    THEN SelectSeq(summaries, LAMBDA s : s.id # Head(deleting))
                    ELSE summaries
    /\ deleting' = Tail(deleting)
    /\ IF Tail(deleting) = <<>>
       THEN selectedIds' = <<>>
       ELSE UNCHANGED selectedIds
    /\ UNCHANGED <<selectedTab, searchQuery, debouncedSearchQuery, page>>
    /\ UNCHANGED backendVars

(* lines 293-298 *)
handlePreviousPage ==
    /\ page > 0
    /\ page' = page - 1
    /\ selectedIds' = <<>>
    /\ UNCHANGED <<summaries, selectedTab, searchQuery, debouncedSearchQuery, deleting>>
    /\ UNCHANGED backendVars

(* lines 300-305 *)
handleNextPage ==
    /\ page < totalPages - 1
    /\ page' = page + 1
    /\ selectedIds' = <<>>
    /\ UNCHANGED <<summaries, selectedTab, searchQuery, debouncedSearchQuery, deleting>>
    /\ UNCHANGED backendVars

DashboardNext ==
    \/ \E newValue \in GmailTabs : handleTabChange(newValue)
    \/ \E text \in SearchQueries : handleSearchChange(text)
    \/ DebounceElapses
    \/ handleSelectAll
    \/ \E k \in 1..Len(RowPool) : handleSelectOne(RowPool[k].id)
    \/ handleBatchDelete
    \/ \E deleted \in BOOLEAN : OnDeleteSettles(deleted)
    \/ handlePreviousPage
    \/ handleNextPage

DashboardSpec ==
    Init /\ [][DashboardNext]_vars


---------------------------------------------------------------------------
(* The specification's own terms, used to state its claims                 *)

SpecDeductionKeywords ==
    { <<"t","a","x">>, <<"p","f">>, <<"d","e","d","u","c","t","i","o","n">>,
      <<"p","r","o","f","e","s","s","i","o","n","a","l">>,
      <<"p","r","o","v","i","d","e","n","t">>, <<"l","e","a","v","e">> }

SpecPayslipTerms ==
    { <<"p","a","y","s","l","i","p">>, <<"s","a","l","a","r","y">>,
      <<"e","a","r","n","i","n","g","s">>, <<"d","e","d","u","c","t","i","o","n","s">>,
      <<"b","a","s","i","c">>, <<"h","r","a">> }

SpecIsPayslip(text) ==
    \E term \in SpecPayslipTerms : includes(toLowerCase(text), term)

SpecDeductionLike(item) ==
    \E k \in SpecDeductionKeywords : includes(toLowerCase(item.item), k)

RECURSIVE SpecSum(_)
SpecSum(items) ==
    IF items = <<>> THEN 0 ELSE items[1].total.v + SpecSum(Tail(items))

SpecExpectedPayslip(items) ==
    SpecSum(SelectSeq(items, LAMBDA i : ~SpecDeductionLike(i)))
        - SpecSum(SelectSeq(items, LAMBDA i : SpecDeductionLike(i)))

SpecAbs(n) ==
    IF n < 0 THEN 0 - n ELSE n

AllFinite(items) ==
    \A i \in 1..Len(items) : isFinite(items[i].total)

Returned ==
    pc = "done" /\ result.kind = "doc"

(* the collaborator stated a total that is a number other than zero *)
StatedNonZero ==
    completion.total.t = "number" /\ completion.total.v # 0

(* the collaborator's total is zero or missing *)
StatedZeroOrMissing ==
    completion.total \in {Undefined, JSNull, Num(0)}

SpecEligible(text) ==
    \E k \in 1..Len(FINANCIAL_DOCUMENT_KEYWORDS) :
        includes(toLowerCase(text), toLowerCase(FINANCIAL_DOCUMENT_KEYWORDS[k]))

---------------------------------------------------------------------------
(* Claims                                                                  *)

(* C1: for a Payslip-flavor document with a non-zero stated total, the     *)
(* returned total is expected = earnings - deductions (deduction keywords  *)
(* tax, pf, deduction, professional, provident, leave) when                *)
(* |stated - expected| > 100, and the stated total otherwise.              *)
C1_PayslipStatedTotalValidated ==
    (Returned /\ isPayslip /\ StatedNonZero /\ AllFinite(result.items)) =>
        LET stated == completion.total.v
            expected == SpecExpectedPayslip(result.items)
        IN  result.total =
                Num(IF SpecAbs(stated - expected) > 100 THEN expected ELSE stated)

(* C2: for a Generic-flavor document with a non-zero stated total, the     *)
(* returned total is the sum of the items when that sum is > 0 and         *)
(* |stated - sum| > 1% of the sum, and the stated total otherwise.         *)
C2_GenericStatedTotalValidated ==
    (Returned /\ ~isPayslip /\ StatedNonZero /\ AllFinite(result.items)) =>
        LET stated == completion.total.v
            sumOfItems == SpecSum(result.items)
        IN  result.total =
                Num(IF sumOfItems > 0 /\ 100 * SpecAbs(stated - sumOfItems) > sumOfItems
                    THEN sumOfItems
                    ELSE stated)

(* C3: when the stated total is zero or missing and at least one item      *)
(* survives, the returned total is earnings - deductions for Payslip and   *)
(* the sum of the items for Generic.                                       *)
C3_MissingTotalComputedByFlavor ==
    (Returned /\ StatedZeroOrMissing /\ Len(result.items) > 0 /\ AllFinite(result.items)) =>
        result.total =
            Num(IF isPayslip
                THEN SpecExpectedPayslip(result.items)
                ELSE SpecSum(result.items))

(* C4: the reconciliation rule applied to the total is the one the flavor  *)
(* of the source text selects: the payslip rule if and only if the         *)
(* case-folded text contains payslip, salary, earnings, deductions, basic  *)
(* or hra, the generic rule otherwise.                                     *)
C4_RuleSelectedByTextFlavor ==
    Returned =>
        LET finalTotal == parseAmount(completion.total)
            textIsPayslip == SpecIsPayslip(contentToExtract)
        IN  /\ (finalTotal = Num(0) /\ Len(result.items) > 0) =>
                   result.total = IF textIsPayslip
                                  THEN payslipComputed(result.items)
                                  ELSE sumTotals(result.items, Num(0))
            /\ JSGt(finalTotal, Num(0)) =>
                   result.total = IF textIsPayslip
                                  THEN payslipValidated(finalTotal, result.items)
                                  ELSE genericValidated(finalTotal, result.items)

(* C5: a non-zero stated total already within tolerance of the expected    *)
(* value (100 absolute for Payslip, 1% of the item sum for Generic) is     *)
(* returned unchanged.                                                     *)
C5_TotalWithinToleranceKept ==
    (Returned /\ StatedNonZero /\ AllFinite(result.items)) =>
        LET stated == completion.total.v
            sumOfItems == SpecSum(result.items)
            within == IF isPayslip
                      THEN SpecAbs(stated - SpecExpectedPayslip(result.items)) <= 100
                      ELSE 100 * SpecAbs(stated - sumOfItems) <= sumOfItems
        IN  within => result.total = Num(stated)

(* C6: a plain message body without any eligibility keyword (compared      *)
(* case-insensitively) returns null without any LLM request; a body with   *)
(* at least one keyword proceeds to the LLM request.                       *)
C6_KeywordGate ==
    (~pdfBuffer /\ pc \in {"awaitLLM", "done"}) =>
        IF SpecEligible(emailBody)
        THEN llmRequests = 1
        ELSE llmRequests = 0 /\ pc = "done" /\ result = NullResult

C6_Witness ==
    /\ pc = "done"
    /\ ~pdfBuffer
    /\ emailBody = s_coffee
    /\ llmRequests = 0
    /\ result = NullResult

(* C7: text shorter than the minimum length is rejected with null and no   *)
(* LLM request, with or without a keyword, attached or not.                *)
C7_ShortTextRejected ==
    (pc \in {"awaitLLM", "done"} /\ Len(contentToExtract) < MinPdfTextLength) =>
        llmRequests = 0 /\ pc = "done" /\ result = NullResult

(* C8: an attached document whose extracted text is too short returns an   *)
(* outcome the caller can tell apart from the one of a keyword-free plain  *)
(* message, which is null.                                                 *)
C8_UnreadableDistinctFromNoData ==
    (pc = "done" /\ pdfBuffer /\ sourceType = "PDF attachment"
        /\ Len(contentToExtract) < MinPdfTextLength) =>
        result # NullResult

WellFormed(doc) ==
    /\ isNumber(doc.total)
    /\ \A i \in 1..Len(doc.items) :
          /\ doc.items[i].item # <<>>
          /\ isNumber(doc.items[i].price)
          /\ isNumber(doc.items[i].total)

C10_TotalFinite ==
    Returned => isFinite(result.total)

(* ---------------------------------------------------------------------- *)
(* Currency                                                                *)
(* ---------------------------------------------------------------------- *)

KnownCurrencies ==
    {Str(c_USD), Str(c_INR), Str(c_EUR), Str(c_GBP)}

(* C11: the currency of every returned document is one of the known codes  *)
(* USD, INR, EUR, GBP, whatever currency the collaborator returned.        *)
C11_CurrencyKnownCode ==
    Returned => result.currency \in KnownCurrencies

(* the collaborator stated a currency: a non-empty value *)
SpecCurrencyPresent(c) ==
    c \notin {Undefined, JSNull, Str(<<>>)}

(* the text contains the marker, letter case ignored *)
SpecContains(text, marker) ==
    includes(toLowerCase(text), toLowerCase(marker))

(* the currency the markers of the text stand for, in the stated order *)
SpecMarkerCurrency(text) ==
    IF \/ SpecContains(text, <<"R","S",".">>)
       \/ SpecContains(text, <<"I","N","R">>)
       \/ SpecContains(text, <<"R","U","P","E","E","S">>)
    THEN Str(<<"I","N","R">>)
    ELSE IF SpecContains(text, <<"euro-sign">>) \/ SpecContains(text, <<"E","U","R">>)
    THEN Str(<<"E","U","R">>)
    ELSE IF SpecContains(text, <<"pound-sign">>) \/ SpecContains(text, <<"G","B","P">>)
    THEN Str(<<"G","B","P">>)
    ELSE Str(<<"U","S","D">>)

(* C12: a stated currency that is present and not USD is carried verbatim; *)
(* otherwise the currency is INR, EUR, GBP or USD by the first marker      *)
(* group, in that order, found in the full source text.                    *)
C12_CurrencyInference ==
    Returned =>
        result.currency =
            IF SpecCurrencyPresent(completion.currency)
               /\ completion.currency # Str(<<"U","S","D">>)
            THEN completion.currency
            ELSE SpecMarkerCurrency(contentToExtract)

(* a text with both rupee and euro markers and the generic stated currency *)
C12_Witness ==
    /\ Returned
    /\ completion.currency = Str(c_USD)
    /\ SpecContains(contentToExtract, c_INR)
    /\ SpecContains(contentToExtract, c_EUR)
    /\ result.currency = Str(c_INR)

(* ---------------------------------------------------------------------- *)
(* Line items                                                              *)
(* ---------------------------------------------------------------------- *)

SpecSpaces ==
    {" ", "\t", "\n"}

(* the label without its leading and trailing spaces *)
RECURSIVE SpecStripLabel(_)
SpecStripLabel(s) ==
    IF s = <<>> THEN s
    ELSE IF Head(s) \in SpecSpaces THEN SpecStripLabel(Tail(s))
    ELSE IF s[Len(s)] \in SpecSpaces THEN SpecStripLabel(SubSeq(s, 1, Len(s) - 1))
    ELSE s

(* the raw items of the completion that the k-th returned item comes from *)
RawOf(k) ==
    {i \in 1..Len(completion.items) :
        /\ completion.items[i].item.t = "string"
        /\ SpecStripLabel(completion.items[i].item.s) = result.items[k].item}

(* a raw quantity that is missing, zero or negative *)
SpecQuantityUnusable(q) ==
    \/ q \in {Undefined, JSNull}
    \/ q.t = "number" /\ q.v <= 0

(* C13: every returned item has quantity 1 whenever the raw item's         *)
(* quantity was missing, zero or negative.                                 *)
C13_QuantityDefaulted ==
    Returned =>
        \A k \in 1..Len(result.items) : \A i \in RawOf(k) :
            SpecQuantityUnusable(completion.items[i].quantity)
                => result.items[k].quantity = Num(1)

SpecDigits ==
    {"0", "1", "2", "3", "4", "5", "6", "7", "8", "9"}

SpecDigitValue(c) ==
    CHOOSE n \in 0..9 : <<"0", "1", "2", "3", "4", "5", "6", "7", "8", "9">>[n + 1] = c

(* the number a sequence of digits writes, read from its last digit *)
RECURSIVE SpecDecimal(_)
SpecDecimal(s) ==
    IF s = <<>> THEN 0
    ELSE 10 * SpecDecimal(SubSeq(s, 1, Len(s) - 1)) + SpecDigitValue(s[Len(s)])

SpecWithoutCommas(s) ==
    SelectSeq(s, LAMBDA c : c # ",")

(* digits with thousands-separator commas, spaces around them allowed *)
SpecNumeric(s) ==
    LET core == SpecStripLabel(s)
    IN  /\ core # <<>>
        /\ core[1] \in SpecDigits
        /\ \A i \in 1..Len(core) : core[i] \in SpecDigits \cup {","}

(* the amount a raw value stands for: a number as it is, a numeric string  *)
(* by its digits, anything else 0                                          *)
SpecAmount(v) ==
    IF v.t \in {"number", "inf", "ninf", "nan"} THEN v
    ELSE IF v.t = "string" /\ SpecNumeric(v.s)
    THEN Num(SpecDecimal(SpecWithoutCommas(SpecStripLabel(v.s))))
    ELSE Num(0)

(* the quantity after defaulting *)
SpecQuantity(q) ==
    IF SpecQuantityUnusable(q) THEN Num(1) ELSE q

(* C14: for every kept item, lineTotal is the raw item's provided total    *)
(* when that parses to a non-zero number, and unitAmount times the         *)
(* defaulted quantity otherwise.                                           *)
C14_LineTotal ==
    Returned =>
        \A k \in 1..Len(result.items) : \A i \in RawOf(k) :
            LET raw == completion.items[i]
                provided == SpecAmount(raw.total)
            IN  (raw.quantity.t = "number" \/ SpecQuantityUnusable(raw.quantity)) =>
                    result.items[k].total =
                        IF provided # Num(0)
                        THEN provided
                        ELSE JSMul(result.items[k].price, SpecQuantity(raw.quantity))

(* C15: no returned item has both unitAmount 0 and lineTotal 0.            *)
C15_NoZeroItem ==
    Returned =>
        \A k \in 1..Len(result.items) :
            ~(result.items[k].price = Num(0) /\ result.items[k].total = Num(0))

SpecNonNegative(x) ==
    \/ x.t = "number" /\ x.v >= 0
    \/ x.t = "inf"

(* C16: every returned item has unitAmount >= 0 and lineTotal >= 0.        *)
C16_AmountsNonNegative ==
    Returned =>
        \A k \in 1..Len(result.items) :
            /\ SpecNonNegative(result.items[k].price)
            /\ SpecNonNegative(result.items[k].total)

(* a label that is empty or made of spaces only *)
SpecBlank(label) ==
    \/ label \in {Undefined, JSNull}
    \/ label.t = "string" /\ \A i \in 1..Len(label.s) : label.s[i] \in SpecSpaces

(* C17: a raw item whose label is empty or whitespace-only never appears   *)
(* in the returned items, whatever its price, quantity and total: every    *)
(* returned item carries the label of a raw item that is not blank, and    *)
(* there are no more returned items than such raw items.                   *)
C17_BlankLabelDropped ==
    Returned =>
        /\ \A k \in 1..Len(result.items) :
              \E i \in 1..Len(completion.items) :
                  /\ ~SpecBlank(completion.items[i].item)
                  /\ i \in RawOf(k)
        /\ Len(result.items)
              <= Cardinality({i \in 1..Len(completion.items) :
                                  ~SpecBlank(completion.items[i].item)})

(* a document returned from a completion that had a whitespace-only label  *)
(* with amounts next to a labelled item                                    *)
C17_Witness ==
    /\ Returned
    /\ \E i \in 1..Len(completion.items) :
          /\ completion.items[i].item.t = "string"
          /\ completion.items[i].item.s # <<>>
          /\ SpecBlank(completion.items[i].item)
          /\ completion.items[i].price = Num(5)
    /\ Len(result.items) = Len(completion.items) - 1
    /\ Len(result.items) >= 1

(* a string without any digit: no number can be read from it *)
SpecUnparseable(s) ==
    \A i \in 1..Len(s) : s[i] \notin SpecDigits

(* C18: parseAmount maps every valid numeric string with                   *)
(* thousands-separator commas to its numeric value, returns a number       *)
(* input unchanged, and maps every unparseable or missing value to 0.      *)
C18_ParseAmount ==
    parsed # NotParsed =>
        /\ value.t \in {"number", "inf", "ninf", "nan"} => parsed = value
        /\ (value.t = "string" /\ SpecNumeric(value.s))
              => parsed = Num(SpecDecimal(SpecWithoutCommas(SpecStripLabel(value.s))))
        /\ value \in {Undefined, JSNull} => parsed = Num(0)
        /\ (value.t = "string" /\ SpecUnparseable(value.s)) => parsed = Num(0)

(* ---------------------------------------------------------------------- *)
(* The email-summary record                                                *)
(* ---------------------------------------------------------------------- *)

(* C19: whenever a record is re-processed by reSummarize, the financial    *)
(* document stored before the call is discarded: after the call the        *)
(* record's invoiceData is null or the result of an extraction run during  *)
(* that call, never the previously stored value carried over.              *)
C19_StaleDocumentDiscarded ==
    (svcPc = "returned" /\ svcOp.name = "reSummarize") =>
        \/ store[svcOp.id].invoiceData = NullResult
        \/ pc = "done" /\ store[svcOp.id].invoiceData = result

(* C20: a financial-extraction failure never blocks persistence: whenever  *)
(* summarizeEmail succeeds, createSummary inserts exactly one record with  *)
(* that summary, category and keywords, its invoiceData null if extraction *)
(* failed or found nothing; it rejects only when summarizeEmail threw.     *)
C20_SummaryPersisted ==
    [][svcOp'.name = "createSummary" =>
          /\ svcPc' = "threw" => summaryData'.kind = "throw"
          /\ IF svcPc # "returned" /\ svcPc' = "returned"
             THEN /\ summaryData'.kind = "ok"
                  /\ Len(store') = Len(store) + 1
                  /\ SubSeq(store', 1, Len(store)) = store
                  /\ LET row == store'[Len(store')]
                     IN  /\ row.subject = svcOp'.email.subject
                         /\ row.body = svcOp'.email.body
                         /\ row.summary = summaryData'.summary
                         /\ row.category = summaryData'.category
                         /\ row.keywords = summaryData'.keywords
                         /\ (pc' # "done" \/ result'.kind # "doc")
                               => row.invoiceData = NullResult
             ELSE store' = store]_vars

(* createSummary returned a row although the extraction it ran failed      *)
(* after the request was sent                                              *)
C20_Witness ==
    /\ svcPc = "returned"
    /\ svcOp.name = "createSummary"
    /\ pc = "done"
    /\ llmRequests = 1
    /\ result = NullResult
    /\ store # <<>>
    /\ store[Len(store)].summary = summaryData.summary
    /\ store[Len(store)].invoiceData = NullResult

(* the email's subject or body holds a term of the keyword list, letter    *)
(* case ignored                                                            *)
SpecHasFinancialTerm(email) ==
    \E i \in 1..Len(financialKeywords) :
        \/ SpecContains(email.subject, financialKeywords[i])
        \/ SpecContains(email.body, financialKeywords[i])

(* C23: createSummary attempts financial extraction whenever the category  *)
(* is Invoice, or a PDF is attached, or the subject or body contains,      *)
(* case-insensitively, any term of the keyword list ('RS.' and 'INR'       *)
(* included); otherwise it stores invoiceData null without calling the     *)
(* extractor.                                                              *)
C23_ExtractionTrigger ==
    (svcOp.name = "createSummary" /\ svcPc \in {"insert", "returned"}) =>
        IF \/ summaryData.category = "Invoice"
           \/ svcOp.email.pdfAttachment
           \/ SpecHasFinancialTerm(svcOp.email)
        THEN pc = "done"
        ELSE pc = "idle" /\ invoiceData = NullResult

(* the row of the running call's id *)
RowOfCall ==
    getSummaryById(store, svcOp.id)

(* C24: after a successful reSummarize whose new category is not Invoice,  *)
(* the record's stored invoiceData is null, even when the record held      *)
(* financial data before the call.                                         *)
C24_NonInvoiceClearsDocument ==
    (svcOp.name = "reSummarize" /\ svcPc = "returned"
        /\ summaryData.category # "Invoice")
            => RowOfCall.invoiceData = NullResult

(* a record that held a document was re-summarized into another category *)
C24_Witness ==
    /\ svcOp.name = "reSummarize"
    /\ svcPc = "returned"
    /\ summaryData.category = "Work"
    /\ existing.invoiceData.kind = "doc"
    /\ RowOfCall.invoiceData = NullResult

(* C28: reSummarize on an id that has no stored record fails with 'Email   *)
(* summary not found' (HTTP 404 at the route), issues no LLM request, and  *)
(* leaves every stored record unchanged.                                   *)
C28_UnknownIdRejected ==
    [][(svcOp'.name = "reSummarize"
            /\ \A k \in 1..Len(store) : store[k].id # svcOp'.id) =>
          /\ svcPc' = "threw"
          /\ svcError' = <<"E","m","a","i","l"," ","s","u","m","m","a","r","y"," ",
                           "n","o","t"," ","f","o","u","n","d">>
          /\ resummarizeStatus' = 404
          /\ summaryData' = NoSummaryData
          /\ llmRequests' = 0
          /\ pc' = "idle"
          /\ store' = store]_vars

(* reSummarize(2) threw while the table held one record *)
C28_Witness ==
    /\ svcOp.name = "reSummarize"
    /\ svcOp.id = 2
    /\ Len(store) = 1
    /\ svcPc = "threw"
    /\ resummarizeStatus = 404

(* C29: a successful reSummarize(id) changes only the summary, category,   *)
(* keywords, invoiceData and updatedAt of the record with that id: its id, *)
(* sender, subject, body and createdAt, and every other record, are        *)
(* unchanged.                                                              *)
C29_ReSummarizeFrame ==
    [][(svcOp.name = "reSummarize" /\ svcPc # "returned" /\ svcPc' = "returned") =>
          /\ Len(store') = Len(store)
          /\ \A k \in 1..Len(store) :
                IF store[k].id = svcOp.id
                THEN /\ store'[k].id = store[k].id
                     /\ store'[k].sender = store[k].sender
                     /\ store'[k].subject = store[k].subject
                     /\ store'[k].body = store[k].body
                     /\ store'[k].createdAt = store[k].createdAt
                ELSE store'[k] = store[k]]_vars

(* the first of two records was re-summarized and its summary changed *)
C29_Witness ==
    /\ svcOp.name = "reSummarize"
    /\ svcPc = "returned"
    /\ svcOp.id = 1
    /\ Len(store) = 2
    /\ store[1].summary # existing.summary
    /\ store[1].subject = existing.subject

(* C26: the two total-reconciliation branches agree: the total computed    *)
(* when the stated total is zero or missing is accepted unchanged when the *)
(* same items are reconciled again with that computed total as the stated  *)
(* total.                                                                  *)
C26_ReconciliationBranchesAgree ==
    (Returned /\ StatedZeroOrMissing /\ Len(result.items) > 0) =>
        reconcileTotal(result.total, result.items) = result.total


(* batchSummarizeEmails has returned to batchCreateSummaries *)
BatchSummarizeReturned ==
    \/ batchPc \in {"prepare", "extractInvoiceData", "insert"}
    \/ batchPc = "returned" /\ emails # <<>>

(* the requests that were answered with a summary, in the order made *)
Succeeded ==
    SelectSeq(requested, LAMBDA r : r.answer.kind = "ok")

(* C21: when batchSummarizeEmails has returned, every email of the list    *)
(* was requested exactly once, in the order of the list, whether or not    *)
(* earlier requests failed, and the results are the answers of the         *)
(* requests that succeeded, in that order.                                 *)
C21_EveryEmailAttemptedOnce ==
    BatchSummarizeReturned =>
        /\ [k \in 1..Len(requested) |-> requested[k].email] = emails
        /\ results = [k \in 1..Len(Succeeded) |-> Succeeded[k].answer]

(* C22: a further request of a batch run is made only after a wait that    *)
(* elapsed since the request before it, however that request settled.      *)
C22_WaitBetweenRequests ==
    [][(Len(requested') > Len(requested) /\ requested # <<>>) => waited]_vars

(* batchSummarizeEmails is running *)
BatchSummarizeRunning ==
    batchPc \in {"loop", "inner", "summarizeEmail", "delay", "batchDelay"}

(* C27: a batchSummarizeEmails that was started returns, for every list    *)
(* and every batch size, when each request completes or fails.             *)
C27_BatchTerminates ==
    BatchSummarizeRunning ~> ~BatchSummarizeRunning

(* the rows the returned batchCreateSummaries inserted *)
InsertedRows ==
    {store[k] : k \in (Len(store) - Len(summariesToInsert) + 1)..Len(store)}

(* C25: every record batchCreateSummaries persisted carries the summary,   *)
(* category and keywords that summarizeEmail answered for the email with   *)
(* that record's own sender, subject and body.                             *)
C25_RecordsSelfConsistent ==
    batchPc = "returned" =>
        \A row \in InsertedRows :
            \E k \in 1..Len(requested) :
                /\ requested[k].email.sender = row.sender
                /\ requested[k].email.subject = row.subject
                /\ requested[k].email.body = row.body
                /\ requested[k].answer.kind = "ok"
                /\ row.summary = requested[k].answer.summary
                /\ row.category = requested[k].answer.category
                /\ row.keywords = requested[k].answer.keywords


(* C30: whenever no batch deletion is under way, every selected id is the  *)
(* id of a row of the page on display, after any tab changes, search       *)
(* edits, page changes, selections, select-all toggles and deletions.      *)
C30_SelectionOnDisplayedPage ==
    deleting = <<>> => Range(selectedIds) \subseteq Range(pageIds)

=============================================================================
